---- MODULE Spec2Model ----
(***************************************************************************)
(* SenseService: the sampling / smoothing / publishing pipeline.           *)
(*                                                                         *)
(*   Spec           the service as Scripts/main.py wires it: one           *)
(*                  SensorDataSmoother, one SenseHatMQTT                   *)
(*                  (sense_service/__init__.py), run(display), and a       *)
(*                  caller of stop() on another thread.                    *)
(*   CollectorSpec  one HighResTempCollector (sensors/collector.py) driven *)
(*                  by a caller of start() and stop().                     *)
(*   CollectorFair  CollectorSpec under fair scheduling of the threads.    *)
(*   SmootherSpec   one SensorDataSmoother (sensors/__init__.py), built    *)
(*                  with any method tag, window size and alpha, and one    *)
(*                  caller that feeds it values through apply().           *)
(*   SpecFair       Spec under fair scheduling of the main thread and the  *)
(*                  display worker.                                        *)
(*   IsolationSpec  two SensorDataSmoother instances and one caller that   *)
(*                  feeds both.                                            *)
(*   SourceSpec     SenseHatMQTT.temperature_source: the constructor       *)
(*                  argument and later assignments by one caller.          *)
(*   TemperatureSpec  one call of Temperature.calculate_heat_index or      *)
(*                  calculate_dew_point.                                   *)
(*                                                                         *)
(* Temperatures are rationals <<numerator, denominator>>.  The exponential *)
(* moving average is computed in binary floating point: every operation of *)
(* its expression rounds its exact result to the nearest value with a      *)
(* significand of Precision bits, ties to even, as Python floats do with   *)
(* 53 bits.  Sums of readings and their mean are kept exact.  The heat     *)
(* index and the dew point are computed in the same floating point.        *)
(***************************************************************************)
EXTENDS Integers, Sequences, FiniteSets, TLC

VARIABLES
    pc,             \* position of every thread
    exc,            \* the latest exception raised in a thread ("none" when
                    \* none was): it ended the thread unless collect() caught it
    raw,            \* per thread: local raw_temp / new_data
    acc,            \* per thread: intermediate value inside the smoother
    temp,           \* per thread: local temp returned by get_temp
    sm,             \* the SensorDataSmoother instances
    reads,          \* successful temperature readings delivered by the sensor
    cfg,            \* the configuration the process was started with
    running,        \* SenseHatMQTT.running
    data_smoother,  \* SenseHatMQTT.data_smoother (instance id, NoObj = unset)
    temp_source,    \* SenseHatMQTT.__temp_source ("none" = None)
    temp_collector, \* SenseHatMQTT.__temp_collector (NoObj = None)
    display_thread, \* SenseHatMQTT.__display_thread
    display_lock,   \* holder of SenseHatMQTT.display_lock, or "free"
    client,         \* the paho client: connection and background I/O loop
    last_pub,       \* outcome of the latest client.publish ("none" before it)
    interrupted,    \* a KeyboardInterrupt reached the publish loop
    stop_results,   \* how the SenseHatMQTT.stop() calls made so far ended
    col,            \* the HighResTempCollector instance
    drv             \* the single caller's record: the values fed to apply
                    \* and returned, the sources assigned, the call made

vars == <<pc, exc, raw, acc, temp, sm, reads, cfg, running, data_smoother,
          temp_source, temp_collector, display_thread, display_lock, client, last_pub,
          interrupted, stop_results, col, drv>>

svcVars == <<running, data_smoother, temp_source, temp_collector, display_thread,
             display_lock, client, last_pub, interrupted, stop_results>>

(***************************************************************************)
(* Bounds of the model.                                                    *)
(***************************************************************************)
MaxReading == 2     \* the sensor delivers readings 1..MaxReading
MaxReads == 2       \* successful temperature readings in one run
WindowSize == 2     \* window_size given to the smoother
MaxStarts == 2      \* calls of HighResTempCollector.start()
MaxInput == 3       \* the single caller feeds values 1..MaxInput
MaxApplies == 3     \* calls of apply() by the single caller
Precision == 5      \* bits in the significand of a float
MaxAssigns == 3     \* assignments to temperature_source by the caller

SensorVals == 1..MaxReading
NoVal == <<0, 0>>   \* None

\* calls are counted as 0, 1, "2 or more"
Sat(n) == IF n > 2 THEN 2 ELSE n
NoObj == 0          \* None, for object references

Methods == {"none", "moving_average", "exponential_moving_average"}
\* the tags a SensorDataSmoother can be built with: __init__ stores any
Tags == Methods \cup {"median"}
Units == {"C", "F", "K"}

SvcThreads == {"main", "disp", "stop"}
ColThreads == {"c1", "c2"}
Threads == SvcThreads \cup ColThreads \cup {"harness", "user"}

(***************************************************************************)
(* Exact rational arithmetic.                                              *)
(***************************************************************************)
RECURSIVE GCD(_, _)
GCD(a, b) == IF b = 0 THEN a ELSE GCD(b, a % b)

Abs(x) == IF x < 0 THEN -x ELSE x

\* the element of a one-element set
TheOne(S) == CHOOSE r \in S : TRUE

\* n / d in lowest terms; the operands of every operation are evaluated once
Rat(n, d) ==
    TheOne({ <<v[1] \div g, v[2] \div g>> :
               v \in {<<n, d>>}, g \in {GCD(Abs(n), d)} })

RAdd(a, b) ==
    TheOne({ Rat(v[1] * w[2] + w[1] * v[2], v[2] * w[2]) :
               v \in {a}, w \in {b} })
RMul(a, b) ==
    TheOne({ Rat(v[1] * w[1], v[2] * w[2]) : v \in {a}, w \in {b} })
RSub(a, b) ==
    TheOne({ Rat(v[1] * w[2] - w[1] * v[2], v[2] * w[2]) :
               v \in {a}, w \in {b} })
RLe(a, b) == a[1] * b[2] <= b[1] * a[2]
RLt(a, b) == a[1] * b[2] < b[1] * a[2]
\* a / b for b # 0
RDiv(a, b) ==
    TheOne({ IF w[1] > 0 THEN Rat(v[1] * w[2], v[2] * w[1])
             ELSE Rat(-(v[1] * w[2]), -(v[2] * w[1])) :
               v \in {a}, w \in {b} })

RECURSIVE SumSeq(_)
SumSeq(s) == IF s = <<>> THEN <<0, 1>> ELSE RAdd(Head(s), SumSeq(Tail(s)))

(***************************************************************************)
(* Binary floating point: round to nearest, ties to even.                  *)
(***************************************************************************)
RECURSIVE Pow2(_)
Pow2(n) == IF n = 0 THEN 1 ELSE 2 * Pow2(n - 1)

\* the integer significands are SignificandStart .. SignificandEnd - 1
SignificandStart == Pow2(Precision - 1)
SignificandEnd == Pow2(Precision)

\* (n / d) * (mn / md) with n / d > 0 rounded to a significand of
\* Precision bits: n / d is scaled by powers of two into
\* [SignificandStart, SignificandEnd), rounded to an integer, and scaled back
RECURSIVE FlPos(_, _, _, _)
FlPos(n, d, mn, md) ==
    IF n >= d * SignificandEnd THEN FlPos(n, 2 * d, 2 * mn, md)
    ELSE IF n < d * SignificandStart THEN FlPos(2 * n, d, mn, 2 * md)
    ELSE LET q == n \div d
             r == n % d
         IN  IF 2 * r > d \/ (2 * r = d /\ q % 2 = 1)
             THEN Rat((q + 1) * mn, md)
             ELSE Rat(q * mn, md)

\* the float nearest to the rational a (a is evaluated once)
Fl(a) ==
    TheOne({ IF v[1] = 0 THEN <<0, 1>>
             ELSE IF v[1] < 0 THEN RSub(<<0, 1>>, FlPos(-v[1], v[2], 1, 1))
             ELSE FlPos(v[1], v[2], 1, 1) : v \in {a} })

\* float addition, subtraction, multiplication and division
FAdd(a, b) == Fl(RAdd(a, b))
FSub(a, b) == Fl(RSub(a, b))
FMul(a, b) == Fl(RMul(a, b))
FDiv(a, b) == Fl(RDiv(a, b))

(***************************************************************************)
(* Temperature (sensors/__init__.py)                                       *)
(***************************************************************************)
convert_c_to_f(t) == RAdd(RMul(t, <<9, 5>>), <<32, 1>>)
convert_c_to_k(t) == RAdd(t, <<27315, 100>>)

\* the float literals 1.8 and 273.15
F1_8 == Fl(<<9, 5>>)
F273_15 == Fl(<<27315, 100>>)

\* calculate_heat_index / calculate_dew_point: the argument in Celsius
ToCelsius(t, unit) ==
    IF unit = "F" THEN FDiv(FSub(t, <<32, 1>>), F1_8)
    ELSE IF unit = "K" THEN FSub(t, F273_15)
    ELSE t

\* calculate_heat_index / calculate_dew_point: the Celsius result in the
\* unit asked for
FromCelsius(c, unit) ==
    IF unit = "F" THEN FAdd(FMul(c, F1_8), <<32, 1>>)
    ELSE IF unit = "K" THEN FAdd(c, F273_15)
    ELSE c

\* the coefficients of the heat index regression, written to six
\* significant digits (a float keeps fewer)
HI1 == Fl(<<878469, 100000>>)
HI2 == Fl(<<161139, 100000>>)
HI3 == Fl(<<233855, 100000>>)
HI4 == Fl(<<146116, 1000000>>)
HI5 == Fl(<<12308, 1000000>>)
HI6 == Fl(<<16425, 1000000>>)
HI7 == Fl(<<2212, 1000000>>)
HI8 == Fl(<<725, 1000000>>)
HI9 == Fl(<<36, 10000000>>)

\* the regression, evaluated left to right as Python does; ** binds first
Regression(t, h) ==
    LET t2 == FMul(t, t)
        h2 == FMul(h, h)
        s1 == FAdd(FSub(<<0, 1>>, HI1), FMul(HI2, t))
        s2 == FAdd(s1, FMul(HI3, h))
        s3 == FSub(s2, FMul(FMul(HI4, t), h))
        s4 == FSub(s3, FMul(HI5, t2))
        s5 == FSub(s4, FMul(HI6, h2))
        s6 == FAdd(s5, FMul(FMul(HI7, t2), h))
        s7 == FAdd(s6, FMul(FMul(HI8, t), h2))
    IN  FSub(s7, FMul(FMul(HI9, t2), h2))

\* Temperature.calculate_heat_index
calculate_heat_index(t, humidity, unit) ==
    LET c == ToCelsius(t, unit)
    IN  FromCelsius(IF RLt(c, <<27, 1>>) THEN c ELSE Regression(c, humidity),
                    unit)

\* a dew point with the spread divided by 4
calculate_dew_point_by_four(t, humidity, unit) ==
    LET c == ToCelsius(t, unit)
    IN  FromCelsius(FSub(c, FDiv(FSub(<<100, 1>>, humidity), <<4, 1>>)), unit)

\* Temperature.calculate_dew_point
calculate_dew_point(t, humidity, unit) ==
    LET c == ToCelsius(t, unit)
    IN  FromCelsius(FSub(c, FDiv(FSub(<<100, 1>>, humidity), <<5, 1>>)), unit)

(***************************************************************************)
(* SensorDataSmoother (sensors/__init__.py)                                *)
(***************************************************************************)
Alpha == Fl(<<1, 5>>)   \* alpha = 0.2, the default

NewSmoother(method, window_size, alpha) ==
    [method |-> method, window_size |-> window_size, alpha |-> alpha,
     data |-> <<>>, ema |-> NoVal]

\* a list's append: nothing is ever evicted
ListAppend(data, maxlen, x) == Append(data, x)

\* deque(maxlen = window_size).append
DequeAppend(data, maxlen, x) ==
    IF maxlen = 0 THEN <<>>
    ELSE IF Len(data) >= maxlen THEN Append(Tail(data), x)
    ELSE Append(data, x)

\* the value exponential_moving_average stores in self.ema
EmaValue(s, x) ==
    IF s.ema = NoVal THEN x
    ELSE FAdd(FMul(FSub(<<1, 1>>, s.alpha), s.ema), FMul(s.alpha, x))


InApplyPcs == {"ap_call", "ma_append", "ma_sum", "ma_len",
               "ema_calc", "ema_store", "ema_ret"}

\* two names bound to one object: every call of the caller reaches
\* instance 1
SmootherOfShared(t) ==
    IF t \in ColThreads THEN col.smoother
    ELSE IF t = "user" THEN 1
    ELSE data_smoother

\* the smoother instance thread t calls apply on
SmootherOf(t) ==
    IF t \in ColThreads THEN col.smoother
    ELSE IF t = "user" THEN drv.on
    ELSE data_smoother

\* an exception raised in thread t with no handler anywhere: it ends the
\* thread
RaiseUncaught(t, e) ==
    /\ pc' = [pc EXCEPT ![t] = "raised"]
    /\ exc' = [exc EXCEPT ![t] = e]

\* an exception raised in thread t: collect() catches it inside its loop
\* and prints it (collector.py:55-60); nothing in get_sense_data,
\* publish_loop or display_worker catches it, so it ends the service thread
Raise(t, e) ==
    /\ pc' = [pc EXCEPT ![t] = IF t \in ColThreads THEN "c_sleep"
                               ELSE "raised"]
    /\ exc' = [exc EXCEPT ![t] = e]

\* apply() returns v to its caller: collect() discards it
\* (collector.py:58), get_temp converts it to TEMP_UNIT
\* (__init__.py:184-189), the single caller keeps it as it is
AfterApply(t, v) ==
    /\ raw' = [raw EXCEPT ![t] = NoVal]
    /\ acc' = [acc EXCEPT ![t] = NoVal]
    /\ exc' = exc
    /\ IF t \in ColThreads
       THEN /\ pc' = [pc EXCEPT ![t] = "c_sleep"]
            /\ temp' = temp
       ELSE IF t = "user"
       THEN /\ pc' = [pc EXCEPT ![t] = "u_ret"]
            /\ temp' = [temp EXCEPT ![t] = v]
       ELSE /\ pc' = [pc EXCEPT ![t] = "gs_pressure"]
            /\ temp' = [temp EXCEPT ![t] =
                           IF cfg.unit = "F" THEN convert_c_to_f(v)
                           ELSE IF cfg.unit = "K" THEN convert_c_to_k(v)
                           ELSE v]

\* apply with no branch for 'none': the value goes through the window
ApplyDispatchNoPassThrough(t) ==
    /\ pc[t] = "ap_call"
    /\ LET s == sm[SmootherOf(t)] IN
         /\ IF s.method \in {"none", "moving_average"}
            THEN pc' = [pc EXCEPT ![t] = "ma_append"] /\ exc' = exc
            ELSE IF s.method = "exponential_moving_average"
            THEN pc' = [pc EXCEPT ![t] = "ema_calc"] /\ exc' = exc
            ELSE Raise(t, "ValueError")
         /\ UNCHANGED <<raw, acc, temp>>
    /\ UNCHANGED <<sm, reads, cfg, drv, svcVars, col>>

\* SensorDataSmoother.apply: dispatch on the method
ApplyDispatch(t) ==
    /\ pc[t] = "ap_call"
    /\ LET s == sm[SmootherOf(t)] IN
         IF s.method = "none"
         THEN AfterApply(t, raw[t])
         ELSE /\ IF s.method = "moving_average"
                 THEN pc' = [pc EXCEPT ![t] = "ma_append"] /\ exc' = exc
                 ELSE IF s.method = "exponential_moving_average"
                 THEN pc' = [pc EXCEPT ![t] = "ema_calc"] /\ exc' = exc
                 ELSE Raise(t, "ValueError")
              /\ UNCHANGED <<raw, acc, temp>>
    /\ UNCHANGED <<sm, reads, cfg, drv, svcVars, col>>

\* moving_average: self.data.append(new_data)
MaAppend(t) ==
    /\ pc[t] = "ma_append"
    /\ LET i == SmootherOf(t) IN
         sm' = [sm EXCEPT ![i].data =
                   DequeAppend(sm[i].data, sm[i].window_size, raw[t])]
    /\ pc' = [pc EXCEPT ![t] = "ma_sum"]
    /\ UNCHANGED <<exc, raw, acc, temp, reads, cfg, drv, svcVars, col>>

\* moving_average: sum(self.data)
MaSum(t) ==
    /\ pc[t] = "ma_sum"
    /\ acc' = [acc EXCEPT ![t] = SumSeq(sm[SmootherOf(t)].data)]
    /\ pc' = [pc EXCEPT ![t] = "ma_len"]
    /\ UNCHANGED <<exc, raw, temp, sm, reads, cfg, drv, svcVars, col>>

\* moving_average: ... / len(self.data), and the return
MaLen(t) ==
    /\ pc[t] = "ma_len"
    /\ LET n == Len(sm[SmootherOf(t)].data) IN
         IF n = 0
         THEN Raise(t, "ZeroDivisionError") /\ UNCHANGED <<raw, acc, temp>>
         ELSE AfterApply(t, RMul(acc[t], <<1, n>>))
    /\ UNCHANGED <<sm, reads, cfg, drv, svcVars, col>>

\* exponential_moving_average: read self.ema and compute the new value
EmaCalc(t) ==
    /\ pc[t] = "ema_calc"
    /\ acc' = [acc EXCEPT ![t] = EmaValue(sm[SmootherOf(t)], raw[t])]
    /\ pc' = [pc EXCEPT ![t] = "ema_store"]
    /\ UNCHANGED <<exc, raw, temp, sm, reads, cfg, drv, svcVars, col>>

\* exponential_moving_average: self.ema = ...
EmaStore(t) ==
    /\ pc[t] = "ema_store"
    /\ sm' = [sm EXCEPT ![SmootherOf(t)].ema = acc[t]]
    /\ pc' = [pc EXCEPT ![t] = "ema_ret"]
    /\ UNCHANGED <<exc, raw, acc, temp, reads, cfg, drv, svcVars, col>>

\* exponential_moving_average: return self.ema
EmaRet(t) ==
    /\ pc[t] = "ema_ret"
    /\ AfterApply(t, sm[SmootherOf(t)].ema)
    /\ UNCHANGED <<sm, reads, cfg, drv, svcVars, col>>

\* one step of a thread that is inside SensorDataSmoother.apply
ApplyStep(t) ==
    \/ ApplyDispatch(t)
    \/ MaAppend(t)
    \/ MaSum(t)
    \/ MaLen(t)
    \/ EmaCalc(t)
    \/ EmaStore(t)
    \/ EmaRet(t)


(***************************************************************************)
(* HighResTempCollector (sensors/collector.py): the object                 *)
(***************************************************************************)
NoCollector ==
    [running |-> FALSE, thread |-> "none", smoother |-> NoObj,
     stop_called |-> FALSE, joined |-> FALSE, starts |-> 0]

\* HighResTempCollector.__init__
NewCollector(smoother) ==
    [running |-> FALSE, thread |-> "none", smoother |-> smoother,
     stop_called |-> FALSE, joined |-> FALSE, starts |-> 0]

\* stop(): self.running = False, by thread t, which goes on to nxt
ColStopBegin(t, nxt) ==
    /\ col' = [col EXCEPT !.running = FALSE, !.stop_called = TRUE]
    /\ pc' = [pc EXCEPT ![t] = nxt]

\* the collector as stop() leaves it when it returns: joined records that
\* the call joined a thread
ColStopEnd == [col EXCEPT !.joined = @ \/ col.thread # "none"]

\* stop() with the join of sense_service/collector.py, which has no
\* "if self.thread": without a thread the call does not return normally
ColJoinedUnguarded ==
    IF col.thread = "none" THEN FALSE ELSE pc[col.thread] = "c_done"

\* stop(): "if self.thread: self.thread.join()" has returned
ColJoined == IF col.thread = "none" THEN TRUE ELSE pc[col.thread] = "c_done"

(***************************************************************************)
(* SenseHatMQTT (sense_service/__init__.py) and Scripts/main.py            *)
(***************************************************************************)
VALID_TEMP_SOURCES == {"humidity", "pressure"}

\* str.lower() on the strings a caller passes as temperature source
Lower(str) ==
    CASE str \in {"Humidity", "HUMIDITY"} -> "humidity"
      [] str \in {"Pressure", "PRESSURE"} -> "pressure"
      [] str = "CPU" -> "cpu"
      [] OTHER -> str

\* a setter that stores the value as it was given
StoredSourceAsGiven(new) == new

\* temperature_source setter: the value it stores
StoredSource(new) == Lower(new)

\* temperature_source setter: the value is accepted
ValidSource(new) == Lower(new) \in VALID_TEMP_SOURCES

NewClient == [connected |-> FALSE, loop |-> FALSE, disconnect_called |-> FALSE]

\* a constructor that logs a failed client.connect and returns the object
ConstructLenient ==
    /\ pc["main"] = "start"
    /\ sm' = [sm EXCEPT ![1] = NewSmoother(cfg.method, WindowSize, Alpha)]
    /\ data_smoother' = 1
    /\ temp_source' = StoredSource("humidity")
    /\ running' = FALSE
    /\ \E ok \in BOOLEAN :
         IF ok
         THEN /\ client' = [client EXCEPT !.connected = TRUE]
              /\ exc' = exc
         ELSE /\ client' = client
              /\ exc' = [exc EXCEPT !["main"] = "ConnectionError"]
    /\ pc' = [pc EXCEPT !["main"] = "constructed"]
    /\ UNCHANGED <<raw, acc, temp, reads, cfg, drv, temp_collector,
                   display_thread, display_lock, last_pub, interrupted,
                   stop_results, col>>

\* Scripts/main.py main(): the smoother is built, then SenseHatMQTT.__init__
\* runs; client.connect either succeeds or raises out of the constructor
Construct ==
    /\ pc["main"] = "start"
    /\ sm' = [sm EXCEPT ![1] = NewSmoother(cfg.method, WindowSize, Alpha)]
    /\ data_smoother' = 1
    /\ temp_source' = StoredSource("humidity")
    /\ running' = FALSE
    /\ \E ok \in BOOLEAN :
         IF ok
         THEN /\ client' = [client EXCEPT !.connected = TRUE]
              /\ pc' = [pc EXCEPT !["main"] = "constructed"]
              /\ exc' = exc
         ELSE /\ client' = client
              /\ pc' = [pc EXCEPT !["main"] = "raised"]
              /\ exc' = [exc EXCEPT !["main"] = "ConnectionError"]
    /\ UNCHANGED <<raw, acc, temp, reads, cfg, drv, temp_collector, display_thread,
                   display_lock, last_pub, interrupted, stop_results, col>>

\* run(): start_mqtt_loop
StartMqttLoop ==
    /\ pc["main"] = "constructed"
    /\ client' = [client EXCEPT !.loop = TRUE]
    /\ running' = TRUE
    /\ pc' = [pc EXCEPT !["main"] = "start_collector"]
    /\ UNCHANGED <<exc, raw, acc, temp, sm, reads, cfg, drv, data_smoother, temp_source,
                   temp_collector, display_thread, display_lock, last_pub,
                   interrupted, stop_results, col>>

\* run(): start_collector builds the collector around self.data_smoother;
\* it does not call its start()
StartCollector ==
    /\ pc["main"] = "start_collector"
    /\ col' = NewCollector(data_smoother)
    /\ temp_collector' = 1
    /\ pc' = [pc EXCEPT !["main"] = "start_display"]
    /\ UNCHANGED <<exc, raw, acc, temp, sm, reads, cfg, drv, running, data_smoother, temp_source,
                   display_thread, display_lock, client, last_pub, interrupted,
                   stop_results>>

\* run(): start_display_thread_if_needed, up to display_thread.start()
StartDisplayThread ==
    /\ pc["main"] = "start_display"
    /\ IF cfg.display
       THEN pc' = [pc EXCEPT !["main"] = "set_display_thread",
                             !["disp"] = "dw_check"]
       ELSE pc' = [pc EXCEPT !["main"] = "pl_check"]
    /\ UNCHANGED <<exc, raw, acc, temp, sm, reads, cfg, drv, svcVars, col>>

\* start_display_thread_if_needed: self.display_thread = display_thread
SetDisplayThread ==
    /\ pc["main"] = "set_display_thread"
    /\ display_thread' = "disp"
    /\ pc' = [pc EXCEPT !["main"] = "pl_check"]
    /\ UNCHANGED <<exc, raw, acc, temp, sm, reads, cfg, drv, running, data_smoother, temp_source,
                   temp_collector, display_lock, client, last_pub, interrupted,
                   stop_results, col>>

\* publish_loop: while self.running
PublishLoopCheck ==
    /\ pc["main"] = "pl_check"
    /\ pc' = [pc EXCEPT !["main"] = IF running THEN "gt_read" ELSE "returned"]
    /\ UNCHANGED <<exc, raw, acc, temp, sm, reads, cfg, drv, svcVars, col>>

\* get_temp: the raw reading from the configured source; the sensor
\* either delivers a value or raises
GetTempRead(t) ==
    /\ t \in {"main", "disp"}
    /\ pc[t] = "gt_read"
    /\ \/ /\ reads < MaxReads
          /\ \E v \in SensorVals :
               raw' = [raw EXCEPT ![t] = <<v, 1>>]
          /\ reads' = reads + 1
          /\ IF data_smoother # NoObj
             THEN pc' = [pc EXCEPT ![t] = "ap_call"] /\ temp' = temp
             ELSE /\ pc' = [pc EXCEPT ![t] = "gs_pressure"]
                  /\ temp' = [temp EXCEPT ![t] = raw'[t]]
          /\ exc' = exc
       \/ /\ Raise(t, "SensorReadError")
          /\ UNCHANGED <<raw, reads, temp>>
    /\ UNCHANGED <<acc, sm, cfg, drv, svcVars, col>>

\* get_sense_data after get_temp: sense.get_pressure() and
\* sense.get_humidity() both return and the bundle is built from temp and
\* handed to the caller, or one of the two reads raises
GetPressureHumidity(t) ==
    /\ t \in {"main", "disp"}
    /\ pc[t] = "gs_pressure"
    /\ \/ /\ pc' = [pc EXCEPT ![t] = IF t = "main" THEN "pl_publish"
                                     ELSE "drf_lock"]
          /\ exc' = exc
       \/ Raise(t, "SensorReadError")
    /\ temp' = [temp EXCEPT ![t] = NoVal]
    /\ UNCHANGED <<raw, acc, sm, reads, cfg, drv, svcVars, col>>

\* publish_sense_data without its try/except: a failed client.publish
\* raises out of publish_loop
PublishSenseDataUncaught ==
    /\ pc["main"] = "pl_publish"
    /\ \E ok \in BOOLEAN :
         IF ok
         THEN /\ last_pub' = "ok"
              /\ pc' = [pc EXCEPT !["main"] = "pl_sleep"]
              /\ exc' = exc
         ELSE /\ last_pub' = "fail"
              /\ Raise("main", "PublishError")
    /\ UNCHANGED <<raw, acc, temp, sm, reads, cfg, drv, running, data_smoother, temp_source,
                   temp_collector, display_thread, display_lock, client,
                   interrupted, stop_results, col>>

\* publish_sense_data: client.publish succeeds or raises; the except
\* clause logs the failure and the call returns either way
PublishSenseData ==
    /\ pc["main"] = "pl_publish"
    /\ \E ok \in BOOLEAN :
         last_pub' = IF ok THEN "ok" ELSE "fail"
    /\ pc' = [pc EXCEPT !["main"] = "pl_sleep"]
    /\ UNCHANGED <<exc, raw, acc, temp, sm, reads, cfg, drv, running, data_smoother, temp_source,
                   temp_collector, display_thread, display_lock, client,
                   interrupted, stop_results, col>>

\* publish_loop: time.sleep(3) returns and the while condition is read
PublishSleep ==
    /\ pc["main"] = "pl_sleep"
    /\ pc' = [pc EXCEPT !["main"] = IF running THEN "gt_read" ELSE "returned"]
    /\ UNCHANGED <<exc, raw, acc, temp, sm, reads, cfg, drv, svcVars, col>>

PublishLoopPcs == {"pl_check", "gt_read", "gs_pressure",
                   "pl_publish", "pl_sleep"} \cup InApplyPcs

\* publish_loop: a KeyboardInterrupt anywhere inside the try block runs
\* "del self", which unbinds the local name only; publish_loop and run return
KeyboardInterrupt ==
    /\ pc["main"] \in PublishLoopPcs
    /\ ~interrupted
    /\ interrupted' = TRUE
    /\ pc' = [pc EXCEPT !["main"] = "returned"]
    /\ raw' = [raw EXCEPT !["main"] = NoVal]
    /\ acc' = [acc EXCEPT !["main"] = NoVal]
    /\ temp' = [temp EXCEPT !["main"] = NoVal]
    /\ UNCHANGED <<exc, sm, reads, cfg, drv, running, data_smoother, temp_source, temp_collector,
                   display_thread, display_lock, client, last_pub, stop_results,
                   col>>


\* display_worker with "while True": only the test after the sleep remains
DisplayWorkerCheckAlways ==
    /\ pc["disp"] = "dw_check"
    /\ pc' = [pc EXCEPT !["disp"] = "gt_read"]
    /\ UNCHANGED <<exc, raw, acc, temp, sm, reads, cfg, drv, svcVars, col>>

\* display_worker: while self.running
DisplayWorkerCheck ==
    /\ pc["disp"] = "dw_check"
    /\ pc' = [pc EXCEPT !["disp"] = IF running THEN "gt_read" ELSE "dw_exit"]
    /\ UNCHANGED <<exc, raw, acc, temp, sm, reads, cfg, drv, svcVars, col>>

\* display_real_feel: with self.display_lock
DisplayLockAcquire ==
    /\ pc["disp"] = "drf_lock"
    /\ display_lock = "free"
    /\ display_lock' = "disp"
    /\ pc' = [pc EXCEPT !["disp"] = "drf_show"]
    /\ UNCHANGED <<exc, raw, acc, temp, sm, reads, cfg, drv, running, data_smoother, temp_source,
                   temp_collector, display_thread, client, last_pub, interrupted,
                   stop_results, col>>

\* display_real_feel with display_lock.acquire() ... release() in place of
\* the with statement: a show_message that raises skips the release
ShowMessageNoRelease ==
    /\ pc["disp"] = "drf_show"
    /\ \/ /\ pc' = [pc EXCEPT !["disp"] = "drf_sleep"]
          /\ exc' = exc
       \/ Raise("disp", "DisplayError")
    /\ UNCHANGED <<raw, acc, temp, sm, reads, cfg, drv, running, data_smoother, temp_source,
                   temp_collector, display_thread, display_lock, client,
                   last_pub, interrupted, stop_results, col>>

\* display_real_feel: sense.show_message returns, or raises and the with
\* statement releases the lock on the way out
ShowMessage ==
    /\ pc["disp"] = "drf_show"
    /\ \/ /\ pc' = [pc EXCEPT !["disp"] = "drf_sleep"]
          /\ UNCHANGED <<exc, display_lock>>
       \/ /\ Raise("disp", "DisplayError")
          /\ display_lock' = "free"
    /\ UNCHANGED <<raw, acc, temp, sm, reads, cfg, drv, running, data_smoother, temp_source,
                   temp_collector, display_thread, client, last_pub, interrupted,
                   stop_results, col>>

\* display_real_feel: time.sleep(3) inside the with block, then the lock
\* is released
DisplaySettle ==
    /\ pc["disp"] = "drf_sleep"
    /\ display_lock' = "free"
    /\ pc' = [pc EXCEPT !["disp"] = "dw_clear"]
    /\ UNCHANGED <<exc, raw, acc, temp, sm, reads, cfg, drv, running, data_smoother, temp_source,
                   temp_collector, display_thread, client, last_pub, interrupted,
                   stop_results, col>>

\* display_worker: self.sense.clear() is entered
WorkerClearBegin ==
    /\ pc["disp"] = "dw_clear"
    /\ pc' = [pc EXCEPT !["disp"] = "dw_clearing"]
    /\ UNCHANGED <<exc, raw, acc, temp, sm, reads, cfg, drv, svcVars, col>>

\* display_worker: self.sense.clear() returns
WorkerClearEnd ==
    /\ pc["disp"] = "dw_clearing"
    /\ pc' = [pc EXCEPT !["disp"] = "dw_sleep"]
    /\ UNCHANGED <<exc, raw, acc, temp, sm, reads, cfg, drv, svcVars, col>>

\* display_worker: time.sleep(3) returns, then "if not self.running: break"
WorkerSleep ==
    /\ pc["disp"] = "dw_sleep"
    /\ pc' = [pc EXCEPT !["disp"] = IF running THEN "dw_check" ELSE "dw_exit"]
    /\ UNCHANGED <<exc, raw, acc, temp, sm, reads, cfg, drv, svcVars, col>>

\* display_worker: self.display_thread = None; the setter rejects anything
\* that is not a Thread
WorkerExit ==
    /\ pc["disp"] = "dw_exit"
    /\ Raise("disp", "TypeError")
    /\ UNCHANGED <<raw, acc, temp, sm, reads, cfg, drv, svcVars, col>>

\* the positions of the display worker inside its loop
DisplayLoopPcs == {"dw_check", "gt_read", "gs_pressure", "drf_lock",
                   "drf_show", "drf_sleep", "dw_clear", "dw_clearing",
                   "dw_sleep"} \cup InApplyPcs

\* one step of the display worker thread
DisplayStep ==
    \/ DisplayWorkerCheck
    \/ GetTempRead("disp")
    \/ ApplyStep("disp")
    \/ GetPressureHumidity("disp")
    \/ DisplayLockAcquire
    \/ ShowMessage
    \/ DisplaySettle
    \/ WorkerClearBegin
    \/ WorkerClearEnd
    \/ WorkerSleep
    \/ WorkerExit

\* one step of the main thread
MainStep ==
    \/ Construct
    \/ StartMqttLoop
    \/ StartCollector
    \/ StartDisplayThread
    \/ SetDisplayThread
    \/ PublishLoopCheck
    \/ GetTempRead("main")
    \/ ApplyStep("main")
    \/ GetPressureHumidity("main")
    \/ PublishSenseData
    \/ PublishSleep

\* the service object exists: its constructor has returned
Constructed == pc["main"] # "start" /\ exc["main"] # "ConnectionError"

\* stop() is called: self.temp_collector.stop() comes first, and raises
\* AttributeError while temp_collector is None
StopCall ==
    /\ pc["stop"] = "idle"
    /\ Constructed
    /\ IF temp_collector = NoObj
       THEN /\ stop_results' = [stop_results EXCEPT !.raised = TRUE]
            /\ UNCHANGED <<pc, col>>
       ELSE /\ ColStopBegin("stop", "st_join")
            /\ stop_results' = stop_results
    /\ UNCHANGED <<exc, raw, acc, temp, sm, reads, cfg, drv, running, data_smoother, temp_source,
                   temp_collector, display_thread, display_lock, client,
                   last_pub, interrupted>>

\* stop(): temp_collector.stop() returns once the join has
StopJoin ==
    /\ pc["stop"] = "st_join"
    /\ ColJoined
    /\ col' = ColStopEnd
    /\ pc' = [pc EXCEPT !["stop"] = "st_flag"]
    /\ UNCHANGED <<exc, raw, acc, temp, sm, reads, cfg, drv, svcVars>>

\* stop(): self.running = False
StopClearFlag ==
    /\ pc["stop"] = "st_flag"
    /\ running' = FALSE
    /\ pc' = [pc EXCEPT !["stop"] = "st_sleep"]
    /\ UNCHANGED <<exc, raw, acc, temp, sm, reads, cfg, drv, data_smoother, temp_source,
                   temp_collector, display_thread, display_lock, client,
                   last_pub, interrupted, stop_results, col>>

\* stop(): time.sleep(3), then self.sense.clear() is entered
StopClearBegin ==
    /\ pc["stop"] = "st_sleep"
    /\ pc' = [pc EXCEPT !["stop"] = "st_clearing"]
    /\ UNCHANGED <<exc, raw, acc, temp, sm, reads, cfg, drv, svcVars, col>>

\* stop(): self.sense.clear() returns, and so does stop()
StopClearEnd ==
    /\ pc["stop"] = "st_clearing"
    /\ stop_results' = [stop_results EXCEPT !.returned = Sat(@ + 1)]
    /\ pc' = [pc EXCEPT !["stop"] = "idle"]
    /\ UNCHANGED <<exc, raw, acc, temp, sm, reads, cfg, drv, running, data_smoother, temp_source,
                   temp_collector, display_thread, display_lock, client,
                   last_pub, interrupted, col>>

SmootherIds == {1, 2}
\* the single caller has made no call yet
\* no Temperature function has been called
NoCall == [fn |-> "none", temp |-> NoVal, humidity |-> NoVal, unit |-> "C",
           result |-> NoVal]
NoCalls == [on |-> 1, fed |-> <<>>, outs |-> <<>>,
            other_fed |-> <<>>, other_outs |-> <<>>, assigned |-> <<>>,
            call |-> NoCall]
NoSmoother == NewSmoother("unbuilt", 0, Alpha)

\* the configurations explored: every smoothing method, with and without
\* the display, every TEMP_UNIT (the display worker under the default unit)
Configs ==
    {c \in [method : Methods, display : BOOLEAN, unit : Units] :
        c.display => c.unit = "C"}

Init ==
    /\ cfg \in Configs
    /\ pc = [t \in Threads |-> IF t = "main" THEN "start" ELSE "idle"]
    /\ exc = [t \in Threads |-> "none"]
    /\ raw = [t \in Threads |-> NoVal]
    /\ acc = [t \in Threads |-> NoVal]
    /\ temp = [t \in Threads |-> NoVal]
    /\ sm = [i \in SmootherIds |-> NoSmoother]
    /\ reads = 0
    /\ running = FALSE
    /\ data_smoother = NoObj
    /\ temp_source = "none"
    /\ temp_collector = NoObj
    /\ display_thread = "none"
    /\ display_lock = "free"
    /\ client = NewClient
    /\ last_pub = "none"
    /\ interrupted = FALSE
    /\ stop_results = [returned |-> 0, raised |-> FALSE]
    /\ col = NoCollector
    /\ drv = NoCalls

Next ==
    \/ Construct
    \/ StartMqttLoop
    \/ StartCollector
    \/ StartDisplayThread
    \/ SetDisplayThread
    \/ PublishLoopCheck
    \/ \E t \in {"main", "disp"} : GetTempRead(t)
    \/ \E t \in {"main", "disp"} : ApplyStep(t)
    \/ \E t \in {"main", "disp"} : GetPressureHumidity(t)
    \/ PublishSenseData
    \/ PublishSleep
    \/ KeyboardInterrupt
    \/ DisplayWorkerCheck
    \/ DisplayLockAcquire
    \/ ShowMessage
    \/ DisplaySettle
    \/ WorkerClearBegin
    \/ WorkerClearEnd
    \/ WorkerSleep
    \/ WorkerExit
    \/ StopCall
    \/ StopJoin
    \/ StopClearFlag
    \/ StopClearBegin
    \/ StopClearEnd

Spec == Init /\ [][Next]_vars

\* the scheduler runs the main thread and the display worker whenever they
\* can take a step; stop() and KeyboardInterrupt come when the caller likes
SpecFair == Spec /\ WF_vars(MainStep) /\ WF_vars(DisplayStep)


(***************************************************************************)
(* HighResTempCollector (sensors/collector.py): the background thread and  *)
(* a caller of start() and stop()                                          *)
(***************************************************************************)

\* collect(): self.running = True, the thread's first statement
CollectBegin(t) ==
    /\ pc[t] = "c_start"
    /\ col' = [col EXCEPT !.running = TRUE]
    /\ pc' = [pc EXCEPT ![t] = "c_check"]
    /\ UNCHANGED <<exc, raw, acc, temp, sm, reads, cfg, drv, svcVars>>

\* collect(): while self.running
CollectCheck(t) ==
    /\ pc[t] = "c_check"
    /\ pc' = [pc EXCEPT ![t] = IF col.running THEN "c_read" ELSE "c_done"]
    /\ UNCHANGED <<exc, raw, acc, temp, sm, reads, cfg, drv, svcVars, col>>

\* collect(): raw_temp = self.sense.get_temperature(); the read delivers a
\* value or raises, and the except clause of the loop body catches it
CollectRead(t) ==
    /\ pc[t] = "c_read"
    /\ \/ /\ reads < MaxReads
          /\ \E v \in SensorVals :
               raw' = [raw EXCEPT ![t] = <<v, 1>>]
          /\ reads' = reads + 1
          /\ pc' = [pc EXCEPT ![t] = IF col.smoother # NoObj THEN "ap_call"
                                     ELSE "c_sleep"]
          /\ exc' = exc
       \/ /\ Raise(t, "SensorReadError")
          /\ UNCHANGED <<raw, reads>>
    /\ UNCHANGED <<acc, temp, sm, cfg, drv, svcVars, col>>

\* collect(): time.sleep(self.interval)
CollectSleep(t) ==
    /\ pc[t] = "c_sleep"
    /\ pc' = [pc EXCEPT ![t] = "c_check"]
    /\ raw' = [raw EXCEPT ![t] = NoVal]
    /\ acc' = [acc EXCEPT ![t] = NoVal]
    /\ UNCHANGED <<exc, temp, sm, reads, cfg, drv, svcVars, col>>

\* one step of a collector thread
CollectStep(t) ==
    \/ CollectBegin(t)
    \/ CollectCheck(t)
    \/ CollectRead(t)
    \/ ApplyStep(t)
    \/ CollectSleep(t)

\* the thread object the next start() creates
NextThread == IF col.starts = 0 THEN "c1" ELSE "c2"

\* start(): self.thread = Thread(target=self.collect); self.thread.start()
CollectorStart ==
    /\ pc["harness"] = "h_idle"
    /\ col.starts < MaxStarts
    /\ col.starts < Cardinality(ColThreads)
    /\ col' = [col EXCEPT !.thread = NextThread, !.starts = @ + 1]
    /\ pc' = [pc EXCEPT ![NextThread] = "c_start"]
    /\ UNCHANGED <<exc, raw, acc, temp, sm, reads, cfg, drv, svcVars>>

\* stop(): self.running = False
CollectorStop ==
    /\ pc["harness"] = "h_idle"
    /\ ColStopBegin("harness", "h_join")
    /\ UNCHANGED <<exc, raw, acc, temp, sm, reads, cfg, drv, svcVars>>

\* stop(): if self.thread: self.thread.join(); then stop() returns
CollectorJoin ==
    /\ pc["harness"] = "h_join"
    /\ ColJoined
    /\ col' = ColStopEnd
    /\ pc' = [pc EXCEPT !["harness"] = "h_idle"]
    /\ UNCHANGED <<exc, raw, acc, temp, sm, reads, cfg, drv, svcVars>>

\* a collector built around a smoother of any tag, as
\* HighResTempCollector(sense, smoother, interval) builds it
CollectorInit ==
    /\ cfg \in [method : Tags, display : {FALSE}, unit : {"C"}]
    /\ pc = [t \in Threads |-> IF t = "harness" THEN "h_idle" ELSE "idle"]
    /\ exc = [t \in Threads |-> "none"]
    /\ raw = [t \in Threads |-> NoVal]
    /\ acc = [t \in Threads |-> NoVal]
    /\ temp = [t \in Threads |-> NoVal]
    /\ sm = [i \in SmootherIds |-> NewSmoother(cfg.method, WindowSize, Alpha)]
    /\ reads = 0
    /\ running = FALSE
    /\ data_smoother = NoObj
    /\ temp_source = "none"
    /\ temp_collector = NoObj
    /\ display_thread = "none"
    /\ display_lock = "free"
    /\ client = NewClient
    /\ last_pub = "none"
    /\ interrupted = FALSE
    /\ stop_results = [returned |-> 0, raised |-> FALSE]
    /\ col = NewCollector(1)
    /\ drv = NoCalls

CollectorNext ==
    \/ CollectorStart
    \/ CollectorStop
    \/ CollectorJoin
    \/ \E t \in ColThreads : CollectStep(t)

CollectorSpec == CollectorInit /\ [][CollectorNext]_vars

\* the scheduler runs every thread that can take a step; the caller decides
\* freely when to call start() and stop(), but a call once made goes on
CollectorFair ==
    /\ CollectorSpec
    /\ \A t \in ColThreads : WF_vars(CollectStep(t))
    /\ WF_vars(CollectorJoin)


(***************************************************************************)
(* SensorDataSmoother (sensors/__init__.py) used by a single caller        *)
(***************************************************************************)
Inputs == 1..MaxInput

\* the alpha values smoothers are built with: the default 0.2, 0.5 and 1.0
Alphas == {Alpha, <<1, 2>>, <<1, 1>>}

\* the caller calls apply(new_data)
UserApply ==
    /\ pc["user"] = "u_idle"
    /\ Len(drv.fed) < MaxApplies
    /\ \E v \in Inputs :
         /\ raw' = [raw EXCEPT !["user"] = <<v, 1>>]
         /\ drv' = [drv EXCEPT !.fed = Append(@, <<v, 1>>)]
    /\ pc' = [pc EXCEPT !["user"] = "ap_call"]
    /\ UNCHANGED <<exc, acc, temp, sm, reads, cfg, svcVars, col>>

\* the caller receives what apply returned
UserReturn ==
    /\ pc["user"] = "u_ret"
    /\ drv' = IF drv.on = 1
              THEN [drv EXCEPT !.outs = Append(@, temp["user"])]
              ELSE [drv EXCEPT !.other_outs = Append(@, temp["user"])]
    /\ temp' = [temp EXCEPT !["user"] = NoVal]
    /\ pc' = [pc EXCEPT !["user"] = "u_idle"]
    /\ UNCHANGED <<exc, raw, acc, sm, reads, cfg, svcVars, col>>

\* SensorDataSmoother(method, window_size, alpha): __init__ stores its
\* arguments and builds an empty deque; it rejects nothing
SmootherInit ==
    /\ cfg \in [method : Tags, display : {FALSE}, unit : {"C"}]
    /\ pc = [t \in Threads |-> IF t = "user" THEN "u_idle" ELSE "idle"]
    /\ exc = [t \in Threads |-> "none"]
    /\ raw = [t \in Threads |-> NoVal]
    /\ acc = [t \in Threads |-> NoVal]
    /\ temp = [t \in Threads |-> NoVal]
    /\ \E w \in 0..WindowSize, a \in Alphas :
         sm = [i \in SmootherIds |-> NewSmoother(cfg.method, w, a)]
    /\ reads = 0
    /\ running = FALSE
    /\ data_smoother = NoObj
    /\ temp_source = "none"
    /\ temp_collector = NoObj
    /\ display_thread = "none"
    /\ display_lock = "free"
    /\ client = NewClient
    /\ last_pub = "none"
    /\ interrupted = FALSE
    /\ stop_results = [returned |-> 0, raised |-> FALSE]
    /\ col = NoCollector
    /\ drv = NoCalls

SmootherNext ==
    \/ UserApply
    \/ ApplyStep("user")
    \/ UserReturn

SmootherSpec == SmootherInit /\ [][SmootherNext]_vars


(***************************************************************************)
(* Two SensorDataSmoother instances used by one caller                     *)
(***************************************************************************)
\* the caller calls apply(new_data) on instance i
UserApplyOn(i) ==
    /\ pc["user"] = "u_idle"
    /\ Len(drv.fed) + Len(drv.other_fed) < MaxApplies
    /\ \E v \in Inputs :
         /\ raw' = [raw EXCEPT !["user"] = <<v, 1>>]
         /\ drv' = IF i = 1
                   THEN [drv EXCEPT !.on = i, !.fed = Append(@, <<v, 1>>)]
                   ELSE [drv EXCEPT !.on = i,
                                    !.other_fed = Append(@, <<v, 1>>)]
    /\ pc' = [pc EXCEPT !["user"] = "ap_call"]
    /\ UNCHANGED <<exc, acc, temp, sm, reads, cfg, svcVars, col>>

\* two smoothers built by two constructor calls, each with its own method
IsolationInit ==
    /\ cfg \in [method : Methods, display : {FALSE}, unit : {"C"}]
    /\ pc = [t \in Threads |-> IF t = "user" THEN "u_idle" ELSE "idle"]
    /\ exc = [t \in Threads |-> "none"]
    /\ raw = [t \in Threads |-> NoVal]
    /\ acc = [t \in Threads |-> NoVal]
    /\ temp = [t \in Threads |-> NoVal]
    /\ \E w \in 1..WindowSize, m \in Methods :
         sm = [i \in SmootherIds |->
                 NewSmoother(IF i = 1 THEN cfg.method ELSE m, w, Alpha)]
    /\ reads = 0
    /\ running = FALSE
    /\ data_smoother = NoObj
    /\ temp_source = "none"
    /\ temp_collector = NoObj
    /\ display_thread = "none"
    /\ display_lock = "free"
    /\ client = NewClient
    /\ last_pub = "none"
    /\ interrupted = FALSE
    /\ stop_results = [returned |-> 0, raised |-> FALSE]
    /\ col = NoCollector
    /\ drv = NoCalls

IsolationNext ==
    \/ \E i \in SmootherIds : UserApplyOn(i)
    \/ ApplyStep("user")
    \/ UserReturn

IsolationSpec == IsolationInit /\ [][IsolationNext]_vars


(***************************************************************************)
(* SenseHatMQTT.temperature_source used by a single caller                 *)
(***************************************************************************)
\* the strings the caller passes, and None for "argument not given"
SourceArgs == {"humidity", "Humidity", "HUMIDITY", "pressure", "PRESSURE",
               "cpu", "CPU", ""}
NoArg == "None"

\* SenseHatMQTT(..., temp_source = a): __init__ goes through the setter,
\* with 'humidity' when the argument is None; a rejected value raises out
\* of the constructor
SourceConstruct ==
    /\ pc["user"] = "ts_new"
    /\ \E a \in SourceArgs \cup {NoArg} :
         LET new == IF a = NoArg THEN "humidity" ELSE a IN
           IF ValidSource(new)
           THEN /\ temp_source' = StoredSource(new)
                /\ pc' = [pc EXCEPT !["user"] = "ts_idle"]
                /\ exc' = exc
           ELSE /\ temp_source' = temp_source
                /\ RaiseUncaught("user", "InvalidTemperatureSourceError")
    /\ UNCHANGED <<raw, acc, temp, sm, reads, cfg, drv, running, data_smoother,
                   temp_collector, display_thread, display_lock, client,
                   last_pub, interrupted, stop_results, col>>

\* the caller runs "service.temperature_source = new" inside try/except and
\* notes the outcome
SourceAssign ==
    /\ pc["user"] = "ts_idle"
    /\ Len(drv.assigned) < MaxAssigns
    /\ \E new \in SourceArgs :
         IF ValidSource(new)
         THEN /\ temp_source' = StoredSource(new)
              /\ drv' = [drv EXCEPT !.assigned = Append(@, <<new, "stored">>)]
              /\ exc' = exc
         ELSE /\ temp_source' = temp_source
              /\ drv' = [drv EXCEPT !.assigned =
                            Append(@, <<new, "InvalidTemperatureSourceError">>)]
              /\ exc' = [exc EXCEPT !["user"] =
                            "InvalidTemperatureSourceError"]
    /\ UNCHANGED <<pc, raw, acc, temp, sm, reads, cfg, running, data_smoother,
                   temp_collector, display_thread, display_lock, client,
                   last_pub, interrupted, stop_results, col>>

SourceInit ==
    /\ cfg \in [method : {"none"}, display : {FALSE}, unit : {"C"}]
    /\ pc = [t \in Threads |-> IF t = "user" THEN "ts_new" ELSE "idle"]
    /\ exc = [t \in Threads |-> "none"]
    /\ raw = [t \in Threads |-> NoVal]
    /\ acc = [t \in Threads |-> NoVal]
    /\ temp = [t \in Threads |-> NoVal]
    /\ sm = [i \in SmootherIds |-> NoSmoother]
    /\ reads = 0
    /\ running = FALSE
    /\ data_smoother = NoObj
    /\ temp_source = "none"
    /\ temp_collector = NoObj
    /\ display_thread = "none"
    /\ display_lock = "free"
    /\ client = NewClient
    /\ last_pub = "none"
    /\ interrupted = FALSE
    /\ stop_results = [returned |-> 0, raised |-> FALSE]
    /\ col = NoCollector
    /\ drv = NoCalls

SourceNext ==
    \/ SourceConstruct
    \/ SourceAssign

SourceSpec == SourceInit /\ [][SourceNext]_vars


(***************************************************************************)
(* Temperature.calculate_heat_index and calculate_dew_point called by a    *)
(* single caller                                                           *)
(***************************************************************************)
\* the temperatures and relative humidities passed: numbers a float of
\* Precision bits holds exactly
TempInputs == {<<n, 1>> : n \in {2, 20, 24, 25, 26, 27, 28, 30, 36, 40, 68,
                                 80, 88, 96, 288, 304}}
HumidityInputs == {<<n, 1>> : n \in {0, 20, 50, 60, 100}}

\* the caller calls Temperature.calculate_heat_index(t, h, unit)
HeatIndexCall ==
    /\ pc["user"] = "t_idle"
    /\ \E t \in TempInputs, h \in HumidityInputs, u \in Units :
         drv' = [drv EXCEPT !.call =
                    [fn |-> "calculate_heat_index", temp |-> t,
                     humidity |-> h, unit |-> u,
                     result |-> calculate_heat_index(t, h, u)]]
    /\ pc' = [pc EXCEPT !["user"] = "t_done"]
    /\ UNCHANGED <<exc, raw, acc, temp, sm, reads, cfg, svcVars, col>>

\* the caller calls Temperature.calculate_dew_point(t, h, unit)
DewPointCall ==
    /\ pc["user"] = "t_idle"
    /\ \E t \in TempInputs, h \in HumidityInputs, u \in Units :
         drv' = [drv EXCEPT !.call =
                    [fn |-> "calculate_dew_point", temp |-> t,
                     humidity |-> h, unit |-> u,
                     result |-> calculate_dew_point(t, h, u)]]
    /\ pc' = [pc EXCEPT !["user"] = "t_done"]
    /\ UNCHANGED <<exc, raw, acc, temp, sm, reads, cfg, svcVars, col>>

TemperatureInit ==
    /\ cfg \in [method : {"none"}, display : {FALSE}, unit : {"C"}]
    /\ pc = [t \in Threads |-> IF t = "user" THEN "t_idle" ELSE "idle"]
    /\ exc = [t \in Threads |-> "none"]
    /\ raw = [t \in Threads |-> NoVal]
    /\ acc = [t \in Threads |-> NoVal]
    /\ temp = [t \in Threads |-> NoVal]
    /\ sm = [i \in SmootherIds |-> NoSmoother]
    /\ reads = 0
    /\ running = FALSE
    /\ data_smoother = NoObj
    /\ temp_source = "none"
    /\ temp_collector = NoObj
    /\ display_thread = "none"
    /\ display_lock = "free"
    /\ client = NewClient
    /\ last_pub = "none"
    /\ interrupted = FALSE
    /\ stop_results = [returned |-> 0, raised |-> FALSE]
    /\ col = NoCollector
    /\ drv = NoCalls

TemperatureNext ==
    \/ HeatIndexCall
    \/ DewPointCall

TemperatureSpec == TemperatureInit /\ [][TemperatureNext]_vars


(***************************************************************************)
(* Properties                                                              *)
(***************************************************************************)

\* thread t is executing SensorDataSmoother.apply
InApply(t) == pc[t] \in InApplyPcs

\* thread t is executing sense.show_message or sense.clear
InDisplayOp(t) == pc[t] \in {"drf_show", "dw_clearing", "st_clearing"}

\* C1: once the service has built its collector, the smoother instance the
\* Sampler applies and the smoother instance the publish path (get_temp)
\* applies are never the same instance.
C1_SmoothersNotShared ==
    temp_collector # NoObj => col.smoother # data_smoother

\* C2: no two threads are ever inside SensorDataSmoother.apply on the
\* same smoother instance at the same time.
C2_ApplyExclusive ==
    \A t1, t2 \in Threads :
        (t1 # t2 /\ InApply(t1) /\ InApply(t2))
            => SmootherOf(t1) # SmootherOf(t2)

\* C3: whenever stop() is called after start() has returned (one start(),
\* one background thread), under fair scheduling the collect loop exits
\* and stop() returns.
C3_StopReturns ==
    (pc["harness"] = "h_join" /\ col.starts = 1)
        ~> (pc["harness"] = "h_idle" /\ ColJoined)

\* C4: any publish is preceded by a start of the HighResTempCollector
\* thread.
C4_SamplerStartedBeforePublish ==
    last_pub # "none" => col.thread # "none"

\* C5: a sensor read that raises during metric assembly is caught for that
\* tick; it never ends the publish loop.
C5_ReadFailureCaught ==
    ~(pc["main"] = "raised" /\ exc["main"] = "SensorReadError")

\* C6: a publish attempt, failed or not, is followed by the sleep of its
\* tick and never ends the loop; after the sleep the loop begins the next
\* tick as long as running is set, whatever the previous outcome was.
C6_PublishFailureTolerated ==
    [][/\ (pc["main"] = "pl_publish" /\ pc'["main"] # "pl_publish")
            => \/ interrupted' # interrupted
               \/ /\ pc'["main"] = "pl_sleep"
                  /\ last_pub' \in {"ok", "fail"}
                  /\ exc'["main"] = "none"
       /\ (pc["main"] = "pl_sleep" /\ pc'["main"] # "pl_sleep")
            => \/ interrupted' # interrupted
               \/ pc'["main"] = IF running THEN "gt_read" ELSE "returned"
      ]_vars

\* C6 witness: the tick after a failed publish has reached its own publish
\* attempt.
C6_Witness == pc["main"] = "pl_publish" /\ last_pub = "fail"

\* C7: stop() never raises, whatever the lifecycle state it is called in,
\* and once a stop() has returned running is False.
C7_StopIdempotent ==
    /\ ~stop_results.raised
    /\ (stop_results.returned > 0 /\ pc["stop"] = "idle") => ~running

\* C8: when a KeyboardInterrupt ends the publish loop, an orderly stop()
\* has been performed by the time run() returns: running is False and the
\* Sampler's stop() has been invoked.
C8_InterruptStops ==
    (interrupted /\ pc["main"] = "returned")
        => (~running /\ col.stop_called)

\* C9: when stop() has returned, the broker client's background I/O has
\* been stopped and disconnect has been invoked.
C9_StopDisconnects ==
    stop_results.returned > 0
        => (~client.loop /\ client.disconnect_called)

\* C10: at no time are two threads performing an operation on the
\* display device (show_message or clear).
C10_DisplayExclusive ==
    \A t1, t2 \in Threads :
        (InDisplayOp(t1) /\ InDisplayOp(t2)) => t1 = t2

\* no collector thread is inside the loop of collect()
NoLoopAlive == \A t \in ColThreads : pc[t] \in {"idle", "c_done"}

\* C11: once a stop() that joined the collector's thread has returned and
\* that thread has ended, a later start() does not bring the collector back
\* to Running: running stays False and the thread of the later start()
\* performs no sensor read and no apply.
C11_StoppedIsTerminal ==
    (col.joined /\ pc["c1"] = "c_done")
        => (~col.running /\ pc["c2"] \notin ({"c_read"} \cup InApplyPcs))

\* C12: stop() on a collector that is not running (never started, or
\* stopped before) does not block in its join and does not raise, and it
\* leaves running False, also after it has returned.
C12_StopIsNoOpWhenNotRunning ==
    /\ (pc["harness"] = "h_join" /\ NoLoopAlive)
         => (ColJoined /\ ~col.running /\ exc["harness"] = "none")
    /\ (pc["harness"] = "h_idle" /\ col.stop_called /\ NoLoopAlive)
         => (~col.running /\ exc["harness"] = "none")

\* C12 witness: stop() is called again after an earlier stop() joined the
\* thread and returned, with no loop alive.
C12_Witness == pc["harness"] = "h_join" /\ col.joined /\ NoLoopAlive

\* C13: in collect(), whatever the sensor read or apply does, raise or
\* return, the iteration goes on to its sleep and from there to the loop
\* test, which starts the next iteration as long as running is set; a read
\* that delivers a value is handed to the smoother whatever happened before.
C13_CollectSurvivesErrors ==
    [][\A t \in ColThreads :
         /\ (pc[t] \in ({"c_read"} \cup InApplyPcs)
               /\ pc'[t] \notin ({"c_read"} \cup InApplyPcs))
              => pc'[t] = "c_sleep"
         /\ (pc[t] = "c_read" /\ raw'[t] # NoVal /\ col.smoother # NoObj)
              => pc'[t] = "ap_call"
         /\ (pc[t] = "c_sleep" /\ pc'[t] # "c_sleep") => pc'[t] = "c_check"
         /\ (pc[t] = "c_check" /\ pc'[t] # "c_check")
              => pc'[t] = IF col.running THEN "c_read" ELSE "c_done"
      ]_vars

\* C13 witness: after a read that raised, a later read of the same loop
\* delivered a value and apply is being called with it.
C13_Witness ==
    \E t \in ColThreads :
        pc[t] = "ap_call" /\ exc[t] = "SensorReadError" /\ raw[t] # NoVal

\* C14: no constructed SensorDataSmoother raises the invalid-method error
\* from apply(): a bad tag is rejected when the smoother is built.
C14_InvalidMethodRejectedAtConstruction ==
    ~(pc["user"] = "raised" /\ exc["user"] = "ValueError")

\* the arithmetic mean of a non-empty sequence of values
Mean(s) == RMul(SumSeq(s), <<1, Len(s)>>)

\* the last n elements of s
LastN(s, n) == SubSeq(s, Len(s) - n + 1, Len(s))

Min(a, b) == IF a < b THEN a ELSE b

\* C15: with moving_average and window size N >= 1, the k-th apply of a
\* single caller returns the mean of the last min(k, N) values fed, and the
\* window never holds more than N values.
C15_MovingAverageMean ==
    sm[1].method = "moving_average"
        => /\ Len(sm[1].data) <= sm[1].window_size
           /\ \A k \in 1..Len(drv.outs) :
                drv.outs[k] = Mean(LastN(SubSeq(drv.fed, 1, k),
                                         Min(k, sm[1].window_size)))

\* C15 witness: a window of two values has returned its third result, the
\* first value fed having been evicted.
C15_Witness ==
    /\ sm[1].method = "moving_average"
    /\ sm[1].window_size = 2
    /\ Len(drv.outs) = 3
    /\ drv.fed[1] # drv.fed[3]

\* a lies between b and c, inclusive
Between(a, b, c) ==
    \/ RLe(b, a) /\ RLe(a, c)
    \/ RLe(c, a) /\ RLe(a, b)

\* C16: with exponential_moving_average, the first apply of a single caller
\* returns its input, and every later apply returns the value of
\* (1 - alpha) * previous + alpha * input as the smoother computes it, which
\* lies between the previous output and the new input, inclusive.
C16_EmaDamping ==
    sm[1].method = "exponential_moving_average"
        => \A k \in 1..Len(drv.outs) :
             IF k = 1 THEN drv.outs[1] = drv.fed[1]
             ELSE /\ drv.outs[k] =
                        EmaValue([sm[1] EXCEPT !.ema = drv.outs[k - 1]],
                                 drv.fed[k])
                  /\ Between(drv.outs[k], drv.outs[k - 1], drv.fed[k])

\* C17: with method 'none', every apply returns the value it was given and
\* the window and the running EMA value stay as the constructor left them.
C17_NoneIsIdentity ==
    sm[1].method = "none"
        => /\ sm[1].data = <<>>
           /\ sm[1].ema = NoVal
           /\ \A k \in 1..Len(drv.outs) : drv.outs[k] = drv.fed[k]

\* C17 witness: a 'none' smoother has returned from two calls with
\* different inputs.
C17_Witness ==
    /\ sm[1].method = "none"
    /\ Len(drv.outs) >= 2
    /\ drv.fed[1] # drv.fed[2]

\* C18: when the initial client.connect fails, the exception leaves the
\* constructor and ends the caller; running is never True, no collector
\* thread and no display worker is started, and nothing is published.
C18_ConnectFailureIsFatal ==
    exc["main"] = "ConnectionError"
        => /\ pc["main"] = "raised"
           /\ ~running
           /\ ~client.loop
           /\ col.thread = "none"
           /\ pc["disp"] = "idle"
           /\ last_pub = "none"

\* C18 witness: client.connect has failed and the exception has left the
\* constructor.
C18_Witness == exc["main"] = "ConnectionError" /\ pc["main"] = "raised"

\* C19: in a run with display = False no thread ever performs a display
\* operation (show_message or clear), stop() included.
C19_NoDisplayOpWhenDisabled ==
    ~cfg.display => \A t \in Threads : ~InDisplayOp(t)

\* C20: while stop() is stopping and joining the collector, running is
\* already False: the write running = False comes before that call.
C20_FlagClearedBeforeSamplerStop ==
    pc["stop"] = "st_join" => ~running

\* thread t is inside a time.sleep call
InSleep(t) == pc[t] \in {"pl_sleep", "drf_sleep", "dw_sleep", "st_sleep",
                         "c_sleep"}

\* C21: no thread is ever inside time.sleep while it holds display_lock.
C21_NoSleepUnderLock ==
    \A t \in Threads : InSleep(t) => display_lock # t

\* C22: the display worker, having left its loop, ends normally: its
\* assignment display_thread = None does not raise.
C22_WorkerEndsNormally ==
    ~(pc["disp"] = "raised" /\ exc["disp"] = "TypeError")

\* C23: once running has been cleared, the publish loop completes the tick
\* in flight and returns: no step starts a new tick, and no step ends the
\* loop in any other way than by returning.
C23_PublishLoopReturns ==
    [][(~running /\ pc["main"] \in PublishLoopPcs /\ pc'["main"] # pc["main"])
         => /\ pc'["main"] \in ((PublishLoopPcs \ {"gt_read"}) \cup {"returned"})
      ]_vars

C25_LockReleasedOnExit ==
    IF display_lock = "free" THEN TRUE
    ELSE pc[display_lock] \in {"drf_show", "drf_sleep"}

\* C25 witness: show_message has raised out of display_real_feel and the
\* lock is free.
C25_Witness ==
    /\ pc["disp"] = "raised"
    /\ exc["disp"] = "DisplayError"
    /\ display_lock = "free"

\* C26: every constructed SensorDataSmoother has a window size of at least
\* 1 and an alpha in (0, 1], and moving_average never divides by the length
\* of an empty window.
C26_SmootherWellFormed ==
    /\ sm[1].window_size >= 1
    /\ sm[1].alpha[1] > 0 /\ RLe(sm[1].alpha, <<1, 1>>)
    /\ pc["user"] = "ma_len" => Len(sm[1].data) >= 1

\* apply(x) on a smoother in state s, as one sequential call: the state it
\* leaves and the value it returns
ApplyFn(s, x) ==
    IF s.method = "moving_average"
    THEN LET d == DequeAppend(s.data, s.window_size, x)
         IN  <<[s EXCEPT !.data = d], RMul(SumSeq(d), <<1, Len(d)>>)>>
    ELSE IF s.method = "exponential_moving_average"
    THEN LET e == EmaValue(s, x)
         IN  <<[s EXCEPT !.ema = e], e>>
    ELSE <<s, x>>

\* what a smoother starting in state s returns for the inputs fed, one
\* after the other, when nothing else exists
RECURSIVE Alone(_, _)
Alone(s, fed) ==
    IF fed = <<>> THEN <<>>
    ELSE LET r == ApplyFn(s, Head(fed))
         IN  <<r[2]>> \o Alone(r[1], Tail(fed))

\* smoother i as its constructor left it
Fresh(i) == [sm[i] EXCEPT !.data = <<>>, !.ema = NoVal]

\* C27: two smoother instances are isolated: whatever is fed to the one,
\* and in whatever order the calls on the two alternate, each returns for
\* its inputs exactly what it would return if it were used alone.
C27_InstancesIsolated ==
    /\ drv.outs = SubSeq(Alone(Fresh(1), drv.fed), 1, Len(drv.outs))
    /\ drv.other_outs =
           SubSeq(Alone(Fresh(2), drv.other_fed), 1, Len(drv.other_outs))

\* C27 witness: both instances average, and the second has answered after
\* the first was fed a different value.
C27_Witness ==
    /\ sm[1].method = "moving_average"
    /\ sm[2].method = "moving_average"
    /\ Len(drv.outs) = 1
    /\ Len(drv.other_outs) = 1
    /\ drv.on = 2
    /\ drv.fed[1] # drv.other_fed[1]

\* C28: the temperature source of a constructed service is always
\* 'humidity' or 'pressure'; an assignment whose lower-cased value is one of
\* the two stores that lower-cased value, and any other assignment raises
\* InvalidTemperatureSourceError and leaves the stored source as it was.
C28_SourceAlwaysValid ==
    /\ [](pc["user"] = "ts_idle" => temp_source \in VALID_TEMP_SOURCES)
    /\ [][Len(drv'.assigned) > Len(drv.assigned)
            => LET e == drv'.assigned[Len(drv'.assigned)] IN
                 IF Lower(e[1]) \in VALID_TEMP_SOURCES
                 THEN e[2] = "stored" /\ temp_source' = Lower(e[1])
                 ELSE /\ e[2] = "InvalidTemperatureSourceError"
                      /\ temp_source' = temp_source]_vars

\* C28 witness: the source was switched to pressure by an upper-case
\* assignment, and a later assignment of an unknown source was rejected.
C28_Witness ==
    /\ Len(drv.assigned) = 2
    /\ drv.assigned[1] = <<"PRESSURE", "stored">>
    /\ drv.assigned[2] = <<"CPU", "InvalidTemperatureSourceError">>
    /\ temp_source = "pressure"

\* C29: calculate_heat_index returns the temperature it was given, for
\* every humidity and every unit, whenever that temperature is below 27
\* degrees Celsius.
C29_HeatIndexBelowThreshold ==
    LET c == drv.call IN
      (c.fn = "calculate_heat_index"
         /\ RLt(ToCelsius(c.temp, c.unit), <<27, 1>>))
        => c.result = c.temp

\* C30: in Celsius, calculate_dew_point returns temp - (100 - humidity) / 5:
\* the exact value rounded to a float whenever the quotient is a float; for
\* a humidity of 0 to 100 the result never exceeds temp, and at humidity 100
\* it equals temp.
C30_DewPoint ==
    LET c == drv.call
        q == RDiv(RSub(<<100, 1>>, c.humidity), <<5, 1>>)
    IN  (c.fn = "calculate_dew_point" /\ c.unit = "C")
          => /\ Fl(q) = q => c.result = Fl(RSub(c.temp, q))
             /\ RLe(c.result, c.temp)
             /\ c.humidity = <<100, 1>> => c.result = c.temp

\* C30 witness: calculate_dew_point(25, 60, 'C') has returned 17.
C30_Witness ==
    /\ drv.call.fn = "calculate_dew_point"
    /\ drv.call.temp = <<25, 1>>
    /\ drv.call.humidity = <<60, 1>>
    /\ drv.call.unit = "C"
    /\ drv.call.result = <<17, 1>>

====
